---- MODULE Spec2Model ----
(***************************************************************************)
(* Model of three programs of the repository:                              *)
(*   the per-step evaluators of the assemble-sandwich task,                *)
(*     ingredient_grasped  (mdp/observations.py)                           *)
(*     task_done           (mdp/terminations.py)                           *)
(*     and the simulator snapshot they read through env.scene[...];        *)
(*   the archive viewer    (scripts/tools/view_camera_data.py);            *)
(*   the ingredient substitution of the data-generation driver             *)
(*                         (scripts/mimic/generate_dataset.py).            *)
(* Each has its own specification: SpecGrasp, SpecDone and SpecSeq for the *)
(* evaluators, SpecViewer and SpecGen for the two scripts.                 *)
(*                                                                         *)
(* Units.  The source works in float metres, m/s and radians.  The model   *)
(* uses integers: lengths in millimetres, speeds in mm/s, joint positions  *)
(* in 1/1000 of the joint unit.  So 0.05 m is 50, 0.005 m is 5, 0.60 is    *)
(* 600.  A comparison norm(v) < t of the source is modelled exactly for    *)
(* this integer data as  t > 0 /\ v.v < t*t  (NormLt); float rounding and  *)
(* NaN are outside the model.                                              *)
(*                                                                         *)
(* A batched tensor over the N parallel instances is a function on Envs.   *)
(***************************************************************************)
EXTENDS Integers, Sequences, FiniteSets, TLC

VARIABLES
    \* the simulator snapshot and the evaluator call made on it
    scene,            \* names of the entities env.scene holds (fixed at construction)
    root_pos_w,       \* [rigid object in scene -> [Envs -> <<x, y, z>>]]
    root_lin_vel_w,   \* [rigid object in scene -> [Envs -> <<vx, vy, vz>>]]
    target_pos_w,     \* [Envs -> <<x, y, z>>]: ee_frame.data.target_pos_w[:, 1, :]
    joint_pos,        \* [Envs -> gripper joint]: robot.data.joint_pos[:, -1]
    ret,              \* the evaluator call made on the current snapshot, if any
    steps,            \* simulator writes made so far
    memo,             \* an earlier call, kept with the snapshot it was made on
    \* the archive viewer (scripts/tools/view_camera_data.py)
    args,             \* parsed command line: [mode, episode, fps]
    dataset,          \* the file at args.dataset_file: [exists, episodes]
    pc,               \* position of the viewer
    episode_name,     \* name of the episode chosen
    obs_group,        \* the "obs" group of the episode chosen
    num_frames,       \* display_camera_feeds: num_frames
    frame_idx,        \* display_camera_feeds: frame_idx
    paused,           \* display_camera_feeds: paused
    key,              \* display_camera_feeds: key, as last read
    presses,          \* keys pressed so far
    shown,            \* frame indices passed to cv2.imshow, in order
    window,           \* the frames of the image last passed to cv2.imshow
    printed,          \* messages printed, in order
    created,          \* directories, images and videos written
    raised,           \* the exception that ended the viewer, if any
    \* the data-generation driver (scripts/mimic/generate_dataset.py)
    args_cli,         \* parsed command line: [task, ingredient_type]
    input_file,       \* env name recorded in the source dataset
    env_name,         \* main: env_name
    env_cfg,          \* main: env_cfg
    gen_pc,           \* position of the driver
    log               \* messages the driver printed or warned

simVars == <<scene, root_pos_w, root_lin_vel_w, target_pos_w, joint_pos, ret, steps>>
viewVars ==
    <<args, dataset, pc, episode_name, obs_group, num_frames, frame_idx, paused, key, presses,
      shown, window, printed, created, raised>>
genVars == <<args_cli, input_file, env_name, env_cfg, gen_pc, log>>
vars == <<simVars, memo, viewVars, genVars>>

-----------------------------------------------------------------------------
(* Bounds of the model *)

NumEnvs == 2
MaxGraspSteps == 2
MaxDoneSteps == 1

Envs == 0 .. (NumEnvs - 1)

-----------------------------------------------------------------------------
(* Names *)

\* observations.py:35
ingredient_names == <<"bread_slice_1", "bread_slice_2", "patty", "cheese_slice">>

\* observations.py:10-11 (defaults of robot_cfg and ee_frame_cfg)
robot_cfg == "robot"
ee_frame_cfg == "ee_frame"

\* assemble_sandwich_env_cfg.py:27-31 (the names TerminationsCfg passes)
plate_cfg == "plate"
bread_slice_1_cfg == "bread_slice_1"
cheese_slice_cfg == "cheese_slice"
patty_cfg == "patty"
bread_slice_2_cfg == "bread_slice_2"

RigidNames == {"plate", "bread_slice_1", "bread_slice_2", "patty", "cheese_slice"}

NoCall == [fn |-> "none"]

\* The viewer and the driver are separate programs: while the evaluators run
\* they are not started, and the other way round.
ViewerIdle ==
    /\ args = <<>> /\ dataset = <<>> /\ pc = "idle"
    /\ episode_name = "" /\ obs_group = <<>>
    /\ num_frames = 0 /\ frame_idx = 0 /\ paused = FALSE /\ key = 0 /\ presses = 0
    /\ shown = <<>> /\ window = <<>> /\ printed = <<>> /\ created = {} /\ raised = "none"
DriverIdle ==
    /\ args_cli = <<>> /\ input_file = <<>> /\ env_name = <<>> /\ env_cfg = <<>>
    /\ gen_pc = "idle" /\ log = <<>>

-----------------------------------------------------------------------------
(* Vector arithmetic of the tensors *)

Sub3(a, b) == <<a[1] - b[1], a[2] - b[2], a[3] - b[3]>>

\* a[:, :2] - b[:, :2]
SubXY(a, b) == <<a[1] - b[1], a[2] - b[2]>>

RECURSIVE SumSq(_)
SumSq(v) == IF v = <<>> THEN 0 ELSE Head(v) * Head(v) + SumSq(Tail(v))

\* Variant of NormLt: the squares are compared, so the sign of t is lost.
NormLt_squared(v, t) == SumSq(v) < t * t

\* torch.norm(v) < t  /  torch.linalg.vector_norm(v) < t
NormLt(v, t) == t > 0 /\ SumSq(v) < t * t

-----------------------------------------------------------------------------
(* ingredient_grasped: mdp/observations.py *)

zeros == [i \in Envs |-> FALSE]
ones == [i \in Envs |-> TRUE]

logical_and(a, b) == [i \in Envs |-> a[i] /\ b[i]]
logical_or(a, b) == [i \in Envs |-> a[i] \/ b[i]]

\* Variant of gripper_closed: the boundary counts as closed.
gripper_closed_le(gripper_pos, grasp_threshold) ==
    [i \in Envs |-> gripper_pos[i] <= grasp_threshold]

\* Variant of gripper_closed: reduced over the batch, one closed gripper
\* closes them all.
gripper_closed_any(gripper_pos, grasp_threshold) ==
    [i \in Envs |-> \E j \in Envs : gripper_pos[j] < grasp_threshold]

\* observations.py:42   gripper_closed = gripper_pos < grasp_threshold
gripper_closed(gripper_pos, grasp_threshold) ==
    [i \in Envs |-> gripper_pos[i] < grasp_threshold]

\* Variant of within_distance: the boundary counts as near.
within_distance_le(ingredient_pos, end_effector_pos, diff_threshold) ==
    [i \in Envs |->
        \/ NormLt(Sub3(ingredient_pos[i], end_effector_pos[i]), diff_threshold)
        \/ /\ diff_threshold >= 0
           /\ SumSq(Sub3(ingredient_pos[i], end_effector_pos[i]))
                  = diff_threshold * diff_threshold]

\* observations.py:59-62
\*   pos_diff = torch.linalg.vector_norm(ingredient_pos - end_effector_pos, dim=1)
\*   within_distance = pos_diff < diff_threshold
within_distance(ingredient_pos, end_effector_pos, diff_threshold) ==
    [i \in Envs |->
        NormLt(Sub3(ingredient_pos[i], end_effector_pos[i]), diff_threshold)]

\* Variant of is_grasped: either condition is enough.
is_grasped_or(within, closed) == logical_or(within, closed)

\* observations.py:65   is_grasped = torch.logical_and(within_distance, gripper_closed)
is_grasped(within, closed) == logical_and(within, closed)

\* Variant of loop_body: the KeyError of an absent ingredient is not caught.
loop_body_raise(ingredient_name, acc, end_effector_pos, closed, diff_threshold) ==
    IF acc.raised # "none" THEN acc
    ELSE IF ingredient_name \notin scene
    THEN [raised |-> "KeyError", out |-> acc.out]
    ELSE [raised |-> "none",
          out |-> logical_or(acc.out,
                     is_grasped(within_distance(root_pos_w[ingredient_name],
                                                end_effector_pos, diff_threshold),
                                closed))]

\* Variant of loop_body: the candidate's result replaces the accumulated one
\* instead of being or-ed into it (observations.py:67).
loop_body_last(ingredient_name, acc, end_effector_pos, closed, diff_threshold) ==
    IF acc.raised # "none" THEN acc
    ELSE IF ingredient_name \notin scene
    THEN acc
    ELSE [raised |-> "none",
          out |-> is_grasped(within_distance(root_pos_w[ingredient_name],
                                             end_effector_pos, diff_threshold),
                             closed)]

\* observations.py:47-68, one iteration of the loop over ingredient_names.
\* acc is the pair (exception in flight, any_ingredient_grasped).
loop_body(ingredient_name, acc, end_effector_pos, closed, diff_threshold) ==
    IF acc.raised # "none" THEN acc
    ELSE IF ingredient_name \notin scene
    THEN acc                                  \* except KeyError: continue
    ELSE [raised |-> "none",
          out |-> logical_or(acc.out,
                     is_grasped(within_distance(root_pos_w[ingredient_name],
                                                end_effector_pos, diff_threshold),
                                closed))]

\* observations.py:47   for ingredient_name in ingredient_names
RECURSIVE grasp_loop(_, _, _, _, _)
grasp_loop(k, acc, end_effector_pos, closed, diff_threshold) ==
    IF k > Len(ingredient_names) THEN acc
    ELSE grasp_loop(k + 1,
                    loop_body(ingredient_names[k], acc, end_effector_pos,
                              closed, diff_threshold),
                    end_effector_pos, closed, diff_threshold)

\* observations.py:8-70.  The result is [raised, out]: the exception that left
\* the call ("none" when it returned) and the returned bool tensor.
ingredient_grasped(diff_threshold, grasp_threshold) ==
    IF robot_cfg \notin scene \/ ee_frame_cfg \notin scene
    THEN [raised |-> "KeyError", out |-> zeros]
    ELSE grasp_loop(1, [raised |-> "none", out |-> zeros], target_pos_w,
                    gripper_closed(joint_pos, grasp_threshold), diff_threshold)

-----------------------------------------------------------------------------
(* The grasp detector on a stepping simulation.                            *)
(* In a step the simulator first writes the snapshot (the Move actions),   *)
(* then the observation manager calls the evaluator on it; ret holds that  *)
(* call.  The evaluators keep no state, so a behaviour ends with the call: *)
(* what a later step returns is the call on the later snapshot.            *)

\* Inputs of the model (mm, 1/1000 joint units).
EeHome == <<0, 0, 100>>
EePositions == {<<0, 0, 100>>, <<30, 40, 100>>}
\* at EeHome; 50 from EeHome; straight above EeHome, 150 away
IngredientPositions == {<<0, 0, 100>>, <<30, 40, 100>>, <<0, 0, 250>>}
Cartridge == <<0, 0, 250>>
GripperPositions == {590, 600, 700}
DiffThresholds == {-50, 0, 50, 60}
GraspThresholds == {590, 600}
ZeroVec == <<0, 0, 0>>
PlateHome == <<0, 0, 0>>

Candidates == {ingredient_names[k] : k \in 1 .. Len(ingredient_names)}

\* After construction and reset every instance holds the same scene: the robot,
\* its end-effector frame, the plate and whichever ingredients the scene has.
InitGrasp ==
    /\ \E present \in SUBSET Candidates :
          /\ scene = {robot_cfg, ee_frame_cfg, "plate"} \cup present
          /\ root_pos_w = [n \in {"plate"} \cup present |->
                              [i \in Envs |-> IF n = "plate" THEN PlateHome ELSE Cartridge]]
          /\ root_lin_vel_w = [n \in {"plate"} \cup present |-> [i \in Envs |-> ZeroVec]]
    /\ target_pos_w = [i \in Envs |-> EeHome]
    /\ \E g \in GripperPositions : joint_pos = [i \in Envs |-> g]
    /\ ret = NoCall
    /\ steps = 0
    /\ memo = NoCall
    /\ ViewerIdle
    /\ DriverIdle

\* The simulator moves one ingredient of one instance.
MoveIngredient ==
    /\ ret = NoCall
    /\ steps < MaxGraspSteps
    /\ \E n \in Candidates \cap scene, i \in Envs, p \in IngredientPositions :
          /\ p # root_pos_w[n][i]
          /\ root_pos_w' = [root_pos_w EXCEPT ![n][i] = p]
    /\ steps' = steps + 1
    /\ UNCHANGED <<scene, root_lin_vel_w, target_pos_w, joint_pos, ret>>
    /\ UNCHANGED <<memo, viewVars, genVars>>

\* The simulator moves the end-effector of one instance.
MoveEndEffector ==
    /\ ret = NoCall
    /\ steps < MaxGraspSteps
    /\ \E i \in Envs, p \in EePositions :
          /\ p # target_pos_w[i]
          /\ target_pos_w' = [target_pos_w EXCEPT ![i] = p]
    /\ steps' = steps + 1
    /\ UNCHANGED <<scene, root_pos_w, root_lin_vel_w, joint_pos, ret>>
    /\ UNCHANGED <<memo, viewVars, genVars>>

\* The simulator moves the gripper joint of one instance.
MoveGripper ==
    /\ ret = NoCall
    /\ steps < MaxGraspSteps
    /\ \E i \in Envs, g \in GripperPositions :
          /\ g # joint_pos[i]
          /\ joint_pos' = [joint_pos EXCEPT ![i] = g]
    /\ steps' = steps + 1
    /\ UNCHANGED <<scene, root_pos_w, root_lin_vel_w, target_pos_w, ret>>
    /\ UNCHANGED <<memo, viewVars, genVars>>

\* Variant of CallIngredientGrasped: the subtraction of the end-effector
\* position is done in place, on the simulator's own position tensors.
CallIngredientGrasped_inplace ==
    /\ ret = NoCall
    /\ \E d \in DiffThresholds, g \in GraspThresholds :
          LET r == ingredient_grasped(d, g) IN
          ret' = [fn |-> "ingredient_grasped",
                  diff_threshold |-> d,
                  grasp_threshold |-> g,
                  raised |-> r.raised,
                  out |-> r.out]
    /\ root_pos_w' = [n \in DOMAIN root_pos_w |->
                         IF n \in Candidates
                         THEN [i \in Envs |-> Sub3(root_pos_w[n][i], target_pos_w[i])]
                         ELSE root_pos_w[n]]
    /\ UNCHANGED <<scene, root_lin_vel_w, target_pos_w, joint_pos, steps>>
    /\ UNCHANGED <<memo, viewVars, genVars>>

\* The observation manager calls ingredient_grasped on the current snapshot.
CallIngredientGrasped ==
    /\ ret = NoCall
    /\ \E d \in DiffThresholds, g \in GraspThresholds :
          LET r == ingredient_grasped(d, g) IN
          ret' = [fn |-> "ingredient_grasped",
                  diff_threshold |-> d,
                  grasp_threshold |-> g,
                  raised |-> r.raised,
                  out |-> r.out]
    /\ UNCHANGED <<scene, root_pos_w, root_lin_vel_w, target_pos_w, joint_pos, steps>>
    /\ UNCHANGED <<memo, viewVars, genVars>>

NextGrasp ==
    \/ MoveIngredient
    \/ MoveEndEffector
    \/ MoveGripper
    \/ CallIngredientGrasped

SpecGrasp == InitGrasp /\ [][NextGrasp]_vars

-----------------------------------------------------------------------------
(* Properties of ingredient_grasped, stated on the snapshot and the call *)

GraspCalled == ret.fn = "ingredient_grasped"

\* squared Euclidean distance of two points
Dist2(a, b) ==
    (a[1] - b[1]) * (a[1] - b[1]) + (a[2] - b[2]) * (a[2] - b[2])
        + (a[3] - b[3]) * (a[3] - b[3])

\* the Euclidean distance of a and b is strictly below d
StrictlyWithin(a, b, d) == d > 0 /\ Dist2(a, b) < d * d

PresentCandidates == {c \in Candidates : c \in scene}

\* the present candidates that are near the end-effector of instance i
NearCandidates(i, d) ==
    {c \in PresentCandidates : StrictlyWithin(root_pos_w[c][i], target_pos_w[i], d)}

\* C1: for every instance, ingredient_grasped returns true exactly when the
\* gripper is closed (gripper_pos < grasp_threshold) and at least one present
\* candidate is at Euclidean distance strictly below diff_threshold from the
\* end-effector; which and how many candidates are near does not matter.
C1_GraspedIffClosedAndNear ==
    (GraspCalled /\ ret.raised = "none") =>
        \A i \in Envs :
            ret.out[i] <=> /\ joint_pos[i] < ret.grasp_threshold
                           /\ NearCandidates(i, ret.diff_threshold) # {}

\* C1 happens: a call returned true for an instance with two or more near
\* candidates, and false for another instance.
C1_Witness ==
    /\ GraspCalled
    /\ \E i \in Envs :
          /\ Cardinality(NearCandidates(i, ret.diff_threshold)) >= 2
          /\ Cardinality(PresentCandidates) >= 3
          /\ ret.out[i]
    /\ \E j \in Envs : ~ret.out[j]

\* C2: for every instance, if no present candidate lies within diff_threshold
\* of the end-effector, ingredient_grasped returns false whatever the gripper
\* joint position is.
C2_NothingNearNotGrasped ==
    GraspCalled =>
        \A i \in Envs :
            (\A c \in PresentCandidates :
                ~StrictlyWithin(root_pos_w[c][i], target_pos_w[i], ret.diff_threshold))
            => ~ret.out[i]

\* C2 happens: the gripper of an instance is closed, candidates are present,
\* none is near (one sits exactly at diff_threshold), and the call returned
\* false for it.
C2_Witness ==
    /\ GraspCalled
    /\ ret.diff_threshold > 0
    /\ \E i \in Envs :
          /\ joint_pos[i] < ret.grasp_threshold
          /\ PresentCandidates # {}
          /\ NearCandidates(i, ret.diff_threshold) = {}
          /\ \E c \in PresentCandidates :
                Dist2(root_pos_w[c][i], target_pos_w[i])
                    = ret.diff_threshold * ret.diff_threshold
          /\ ~ret.out[i]

\* C3: for every instance, if the gripper is open (gripper_pos >=
\* grasp_threshold, the boundary included), ingredient_grasped returns false
\* however close any candidate is to the end-effector.
C3_OpenGripperNotGrasped ==
    GraspCalled =>
        \A i \in Envs :
            joint_pos[i] >= ret.grasp_threshold => ~ret.out[i]

\* C3 happens: the gripper of an instance is exactly at grasp_threshold, a
\* candidate is at the end-effector, and the call returned false for it.
C3_Witness ==
    /\ GraspCalled
    /\ \E i \in Envs :
          /\ joint_pos[i] = ret.grasp_threshold
          /\ \E c \in PresentCandidates : root_pos_w[c][i] = target_pos_w[i]
          /\ NearCandidates(i, ret.diff_threshold) # {}
          /\ ~ret.out[i]

\* C4: a candidate absent from the scene is skipped without an error: for
\* every subset of the four candidates in the scene the call returns, its
\* result is the OR over the present candidates only, and with no candidate
\* present it is false for every instance.
C4_AbsentCandidateSkipped ==
    GraspCalled =>
        /\ ret.raised = "none"
        /\ PresentCandidates = {} => \A i \in Envs : ~ret.out[i]
        /\ \A i \in Envs :
              ret.out[i] = (\E c \in Candidates :
                               /\ c \in scene
                               /\ StrictlyWithin(root_pos_w[c][i], target_pos_w[i],
                                                 ret.diff_threshold)
                               /\ joint_pos[i] < ret.grasp_threshold)

\* C4 happens: the first candidates of ingredient_names are absent, a later
\* one is present and grasped, and the call returned true for that instance.
C4_Witness ==
    /\ GraspCalled
    /\ ret.raised = "none"
    /\ "bread_slice_1" \notin scene
    /\ "patty" \notin scene
    /\ "cheese_slice" \in scene
    /\ \E i \in Envs : ret.out[i]

-----------------------------------------------------------------------------
(* task_done: mdp/terminations.py *)

\* terminations.py:107   velocity_threshold = 0.05  (m/s; here mm/s)
velocity_threshold == 50

\* terminations.py:100   bread_1_height > 0.005  (m; here mm)
min_bottom_height == 5

\* Variant of xy_aligned: the boundary counts as aligned.
xy_aligned_le(plate_pos, bread_1_pos, cheese_pos, patty_pos, bread_2_pos, xy_threshold) ==
    [i \in Envs |->
        /\ xy_threshold >= 0
        /\ SumSq(SubXY(bread_1_pos[i], plate_pos[i])) <= xy_threshold * xy_threshold
        /\ SumSq(SubXY(cheese_pos[i], plate_pos[i])) <= xy_threshold * xy_threshold
        /\ SumSq(SubXY(patty_pos[i], plate_pos[i])) <= xy_threshold * xy_threshold
        /\ SumSq(SubXY(bread_2_pos[i], plate_pos[i])) <= xy_threshold * xy_threshold]

\* Variant of xy_aligned: the norm is taken over x, y and z.
xy_aligned_3d(plate_pos, bread_1_pos, cheese_pos, patty_pos, bread_2_pos, xy_threshold) ==
    [i \in Envs |->
        /\ NormLt(Sub3(bread_1_pos[i], plate_pos[i]), xy_threshold)
        /\ NormLt(Sub3(cheese_pos[i], plate_pos[i]), xy_threshold)
        /\ NormLt(Sub3(patty_pos[i], plate_pos[i]), xy_threshold)
        /\ NormLt(Sub3(bread_2_pos[i], plate_pos[i]), xy_threshold)]

\* terminations.py:72-83
xy_aligned(plate_pos, bread_1_pos, cheese_pos, patty_pos, bread_2_pos, xy_threshold) ==
    [i \in Envs |->
        /\ NormLt(SubXY(bread_1_pos[i], plate_pos[i]), xy_threshold)
        /\ NormLt(SubXY(cheese_pos[i], plate_pos[i]), xy_threshold)
        /\ NormLt(SubXY(patty_pos[i], plate_pos[i]), xy_threshold)
        /\ NormLt(SubXY(bread_2_pos[i], plate_pos[i]), xy_threshold)]

\* Variant of vertical_order: equal heights pass.
vertical_order_ge(plate_pos, bread_1_pos, cheese_pos, patty_pos, bread_2_pos) ==
    [i \in Envs |->
        LET bread_1_height == bread_1_pos[i][3] - plate_pos[i][3]
            cheese_height == cheese_pos[i][3] - plate_pos[i][3]
            patty_height == patty_pos[i][3] - plate_pos[i][3]
            bread_2_height == bread_2_pos[i][3] - plate_pos[i][3]
        IN  /\ bread_1_height >= min_bottom_height
            /\ cheese_height >= bread_1_height
            /\ patty_height >= cheese_height
            /\ bread_2_height >= patty_height]

\* terminations.py:93-104
vertical_order(plate_pos, bread_1_pos, cheese_pos, patty_pos, bread_2_pos) ==
    [i \in Envs |->
        LET bread_1_height == bread_1_pos[i][3] - plate_pos[i][3]
            cheese_height == cheese_pos[i][3] - plate_pos[i][3]
            patty_height == patty_pos[i][3] - plate_pos[i][3]
            bread_2_height == bread_2_pos[i][3] - plate_pos[i][3]
        IN  /\ bread_1_height > min_bottom_height
            /\ cheese_height > bread_1_height
            /\ patty_height > cheese_height
            /\ bread_2_height > patty_height]

\* Variant of stable: the top bread slice is not checked.
stable_three(bread_1_lin_vel, cheese_lin_vel, patty_lin_vel, bread_2_lin_vel) ==
    [i \in Envs |->
        /\ NormLt(bread_1_lin_vel[i], velocity_threshold)
        /\ NormLt(cheese_lin_vel[i], velocity_threshold)
        /\ NormLt(patty_lin_vel[i], velocity_threshold)]

\* terminations.py:67-70 and 107-113
stable(bread_1_lin_vel, cheese_lin_vel, patty_lin_vel, bread_2_lin_vel) ==
    [i \in Envs |->
        /\ NormLt(bread_1_lin_vel[i], velocity_threshold)
        /\ NormLt(cheese_lin_vel[i], velocity_threshold)
        /\ NormLt(patty_lin_vel[i], velocity_threshold)
        /\ NormLt(bread_2_lin_vel[i], velocity_threshold)]

\* What the docstring of task_done (terminations.py:29, 39) describes and the
\* body does not compute: each height within height_threshold of its expected
\* value 0.015, 0.030, 0.045, 0.060 (terminations.py:88-91).
heights_as_documented(plate_pos, bread_1_pos, cheese_pos, patty_pos, bread_2_pos,
                      height_threshold) ==
    [i \in Envs |->
        LET dev(pos, expected) ==
                IF pos[i][3] - plate_pos[i][3] >= expected
                THEN pos[i][3] - plate_pos[i][3] - expected
                ELSE expected - (pos[i][3] - plate_pos[i][3])
        IN  /\ dev(bread_1_pos, 15) <= height_threshold
            /\ dev(cheese_pos, 30) <= height_threshold
            /\ dev(patty_pos, 45) <= height_threshold
            /\ dev(bread_2_pos, 60) <= height_threshold]

\* Variant of task_complete: height_threshold bounds the heights as documented.
task_complete_heights(height_threshold, xy_threshold) ==
    LET plate_pos == root_pos_w[plate_cfg]
        bread_1_pos == root_pos_w[bread_slice_1_cfg]
        cheese_pos == root_pos_w[cheese_slice_cfg]
        patty_pos == root_pos_w[patty_cfg]
        bread_2_pos == root_pos_w[bread_slice_2_cfg]
    IN  logical_and(
            logical_and(
                logical_and(
                    xy_aligned(plate_pos, bread_1_pos, cheese_pos, patty_pos,
                               bread_2_pos, xy_threshold),
                    vertical_order(plate_pos, bread_1_pos, cheese_pos, patty_pos,
                                   bread_2_pos)),
                stable(root_lin_vel_w[bread_slice_1_cfg], root_lin_vel_w[cheese_slice_cfg],
                       root_lin_vel_w[patty_cfg], root_lin_vel_w[bread_slice_2_cfg])),
            heights_as_documented(plate_pos, bread_1_pos, cheese_pos, patty_pos,
                                  bread_2_pos, height_threshold))

\* terminations.py:59-116   task_complete = xy_aligned & vertical_order & stable
\* (height_threshold is in scope and is not read)
task_complete(height_threshold, xy_threshold) ==
    LET plate_pos == root_pos_w[plate_cfg]
        bread_1_pos == root_pos_w[bread_slice_1_cfg]
        cheese_pos == root_pos_w[cheese_slice_cfg]
        patty_pos == root_pos_w[patty_cfg]
        bread_2_pos == root_pos_w[bread_slice_2_cfg]
    IN  logical_and(
            logical_and(
                xy_aligned(plate_pos, bread_1_pos, cheese_pos, patty_pos,
                           bread_2_pos, xy_threshold),
                vertical_order(plate_pos, bread_1_pos, cheese_pos, patty_pos,
                               bread_2_pos)),
            stable(root_lin_vel_w[bread_slice_1_cfg], root_lin_vel_w[cheese_slice_cfg],
                   root_lin_vel_w[patty_cfg], root_lin_vel_w[bread_slice_2_cfg]))

\* terminations.py:53-57   the five lookups env.scene[<cfg>.name]
lookups_ok ==
    /\ plate_cfg \in scene
    /\ bread_slice_1_cfg \in scene
    /\ cheese_slice_cfg \in scene
    /\ patty_cfg \in scene
    /\ bread_slice_2_cfg \in scene

\* Variant of task_done: a failed lookup is swallowed and reported as "not done".
task_done_swallow(height_threshold, xy_threshold, test_mode) ==
    IF test_mode
    THEN [raised |-> "none", out |-> ones]
    ELSE IF ~lookups_ok
    THEN [raised |-> "none", out |-> zeros]
    ELSE [raised |-> "none", out |-> task_complete(height_threshold, xy_threshold)]

\* Variant of task_done: test_mode is ignored.
task_done_strict(height_threshold, xy_threshold, test_mode) ==
    IF ~lookups_ok
    THEN [raised |-> "KeyError", out |-> zeros]
    ELSE [raised |-> "none", out |-> task_complete(height_threshold, xy_threshold)]

\* terminations.py:14-118.  The result is [raised, out] as for ingredient_grasped.
task_done(height_threshold, xy_threshold, test_mode) ==
    IF test_mode
    THEN [raised |-> "none", out |-> ones]
    ELSE IF ~lookups_ok
    THEN [raised |-> "KeyError", out |-> zeros]
    ELSE [raised |-> "none", out |-> task_complete(height_threshold, xy_threshold)]

-----------------------------------------------------------------------------
(* The stack evaluator on a stepping simulation *)

\* Inputs of the model (mm, mm/s).
StackPositions ==
    {<<0, 0, 15>>, <<0, 0, 30>>, <<0, 0, 45>>, <<0, 0, 60>>,   \* the expected stack
     <<0, 0, 5>>,                                              \* exactly at the floor
     <<0, 0, 40>>,                                             \* between two layers
     <<30, 40, 30>>,                                           \* planar distance 50
     <<100, 0, 15>>,                                           \* off the plate
     <<0, 0, 200>>}                                            \* far above the plate
Velocities == {<<0, 0, 0>>, <<0, 0, -40>>, <<30, 40, 0>>, <<0, 0, 200>>}
HeightThresholds == {5, 20}
XyThresholds == {-50, 0, 50, 60}

\* The scenes a run starts from, the same in every instance:
\* the assembled stack, the stack with patty and top bread swapped, and the
\* ingredients still off the plate.
Stacked ==
    [plate |-> <<0, 0, 0>>, bread_slice_1 |-> <<0, 0, 15>>, cheese_slice |-> <<0, 0, 30>>,
     patty |-> <<0, 0, 45>>, bread_slice_2 |-> <<0, 0, 60>>]
Swapped ==
    [plate |-> <<0, 0, 0>>, bread_slice_1 |-> <<0, 0, 15>>, cheese_slice |-> <<0, 0, 30>>,
     patty |-> <<0, 0, 60>>, bread_slice_2 |-> <<0, 0, 45>>]
Unassembled ==
    [plate |-> <<0, 0, 0>>, bread_slice_1 |-> <<100, 0, 15>>, cheese_slice |-> <<100, 0, 15>>,
     patty |-> <<100, 0, 15>>, bread_slice_2 |-> <<100, 0, 15>>]
StartScenes == {Stacked, Swapped, Unassembled}

\* The scene holds all five objects, or lacks one of them.
InitDone ==
    /\ \E objects \in {RigidNames} \cup {RigidNames \ {n} : n \in RigidNames},
          start \in StartScenes :
          /\ scene = {robot_cfg, ee_frame_cfg} \cup objects
          /\ root_pos_w = [n \in objects |-> [i \in Envs |-> start[n]]]
          /\ root_lin_vel_w = [n \in objects |-> [i \in Envs |-> ZeroVec]]
    /\ target_pos_w = [i \in Envs |-> EeHome]
    /\ joint_pos = [i \in Envs |-> 700]
    /\ ret = NoCall
    /\ steps = 0
    /\ memo = NoCall
    /\ ViewerIdle
    /\ DriverIdle

\* The simulator moves one object of one instance.
WriteRootPos ==
    /\ ret = NoCall
    /\ steps < MaxDoneSteps
    /\ \E n \in DOMAIN root_pos_w, i \in Envs, p \in StackPositions :
          /\ p # root_pos_w[n][i]
          /\ root_pos_w' = [root_pos_w EXCEPT ![n][i] = p]
    /\ steps' = steps + 1
    /\ UNCHANGED <<scene, root_lin_vel_w, target_pos_w, joint_pos, ret>>
    /\ UNCHANGED <<memo, viewVars, genVars>>

\* The simulator changes the linear velocity of one object of one instance.
WriteRootLinVel ==
    /\ ret = NoCall
    /\ steps < MaxDoneSteps
    /\ \E n \in DOMAIN root_lin_vel_w, i \in Envs, v \in Velocities :
          /\ v # root_lin_vel_w[n][i]
          /\ root_lin_vel_w' = [root_lin_vel_w EXCEPT ![n][i] = v]
    /\ steps' = steps + 1
    /\ UNCHANGED <<scene, root_pos_w, target_pos_w, joint_pos, ret>>
    /\ UNCHANGED <<memo, viewVars, genVars>>

\* The termination manager calls task_done on the current snapshot.
CallTaskDone ==
    /\ ret = NoCall
    /\ \E h \in HeightThresholds, xy \in XyThresholds, t \in BOOLEAN :
          LET r == task_done(h, xy, t) IN
          ret' = [fn |-> "task_done",
                  height_threshold |-> h,
                  xy_threshold |-> xy,
                  test_mode |-> t,
                  raised |-> r.raised,
                  out |-> r.out]
    /\ UNCHANGED <<scene, root_pos_w, root_lin_vel_w, target_pos_w, joint_pos, steps>>
    /\ UNCHANGED <<memo, viewVars, genVars>>

NextDone ==
    \/ WriteRootPos
    \/ WriteRootLinVel
    \/ CallTaskDone

SpecDone == InitDone /\ [][NextDone]_vars

-----------------------------------------------------------------------------
(* Properties of task_done, stated on the snapshot and the call *)

DoneCalled == ret.fn = "task_done"

AllFivePresent == RigidNames \subseteq scene

\* the four layers, bottom to top
Layers == <<"bread_slice_1", "cheese_slice", "patty", "bread_slice_2">>

PlanarDist2(a, b) == (a[1] - b[1]) * (a[1] - b[1]) + (a[2] - b[2]) * (a[2] - b[2])

Speed2(v) == v[1] * v[1] + v[2] * v[2] + v[3] * v[3]

\* height of layer k above the plate in instance i
Height(k, i) == root_pos_w[Layers[k]][i][3] - root_pos_w["plate"][i][3]

\* layer k of instance i is planar-closer to the plate than xy
LayerAligned(k, i, xy) ==
    xy > 0 /\ PlanarDist2(root_pos_w[Layers[k]][i], root_pos_w["plate"][i]) < xy * xy

\* layer k of instance i moves slower than 0.05 m/s
LayerSlow(k, i) == Speed2(root_lin_vel_w[Layers[k]][i]) < 50 * 50

GateXY(i, xy) == \A k \in 1 .. 4 : LayerAligned(k, i, xy)
GateOrder(i) == Height(1, i) > 5 /\ \A k \in 1 .. 3 : Height(k + 1, i) > Height(k, i)
GateStable(i) == \A k \in 1 .. 4 : LayerSlow(k, i)

\* instance i is the stack of the concrete scenario: layers at 0.015, 0.030,
\* 0.045, 0.060 directly above the plate, nothing moving
ExpectedStack(i) ==
    /\ \A k \in 1 .. 4 :
          /\ Height(k, i) = 15 * k
          /\ PlanarDist2(root_pos_w[Layers[k]][i], root_pos_w["plate"][i]) = 0
          /\ root_lin_vel_w[Layers[k]][i] = ZeroVec

\* C5: with test_mode set, task_done returns true for every instance whatever
\* the positions and velocities are, and without evaluating a gate (so also
\* when a gate could not be evaluated).
C5_TestModeAlwaysTrue ==
    (DoneCalled /\ ret.test_mode) =>
        /\ ret.raised = "none"
        /\ \A i \in Envs : ret.out[i]

\* C5 happens: a test_mode call returned true everywhere on a snapshot whose
\* stack is not assembled and not at rest.
C5_Witness ==
    /\ DoneCalled
    /\ ret.test_mode
    /\ AllFivePresent
    /\ \A i \in Envs : ret.out[i]
    /\ \E i \in Envs : ~GateXY(i, ret.xy_threshold) /\ ~GateOrder(i)
    /\ \E i \in Envs : ~GateStable(i)

\* C6: with test_mode off, task_done returns true for an instance exactly
\* when all three gates hold for it: all four layers planar-aligned with the
\* plate, heights strictly increasing with the bottom layer more than 0.005
\* above the plate, all four layer speeds below 0.05; in particular the stack
\* at 0.015, 0.030, 0.045, 0.060 above the plate at rest, xy_threshold 0.05,
\* yields true.
C6_TrueIffThreeGates ==
    (DoneCalled /\ ~ret.test_mode /\ AllFivePresent) =>
        /\ ret.raised = "none"
        /\ \A i \in Envs :
              /\ ret.out[i] <=> (GateXY(i, ret.xy_threshold) /\ GateOrder(i) /\ GateStable(i))
              /\ (ExpectedStack(i) /\ ret.xy_threshold = 50) => ret.out[i]

\* C6 happens: a call with xy_threshold 0.05 returned true for an instance
\* holding the expected stack and false for another instance.
C6_Witness ==
    /\ DoneCalled
    /\ ~ret.test_mode
    /\ AllFivePresent
    /\ ret.xy_threshold = 50
    /\ \E i \in Envs : ExpectedStack(i) /\ ret.out[i]
    /\ \E j \in Envs : ~ret.out[j]

\* C7: with test_mode off, task_done returns false for an instance whenever
\* the vertical order is violated: the bottom layer is not strictly more than
\* 0.005 above the plate, or a layer is not strictly higher than the one
\* below it (equal heights are a violation).
C7_OrderViolatedFalse ==
    (DoneCalled /\ ~ret.test_mode /\ AllFivePresent) =>
        \A i \in Envs :
            (\/ Height(1, i) <= 5
             \/ \E k \in 1 .. 3 : Height(k + 1, i) <= Height(k, i))
            => ~ret.out[i]

\* C7 happens: patty and top bread have swapped heights in an instance that
\* is aligned and at rest, and the call returned false for it.
C7_Witness ==
    /\ DoneCalled
    /\ ~ret.test_mode
    /\ AllFivePresent
    /\ \E i \in Envs :
          /\ Height(1, i) = 15 /\ Height(2, i) = 30
          /\ Height(3, i) = 60 /\ Height(4, i) = 45
          /\ GateXY(i, ret.xy_threshold)
          /\ GateStable(i)
          /\ ~ret.out[i]

\* C8: with test_mode off, task_done returns false for an instance whenever a
\* layer has planar (x, y) distance >= xy_threshold to the plate, whatever the
\* heights and velocities are; z does not enter the distance.
C8_MisalignedFalse ==
    (DoneCalled /\ ~ret.test_mode /\ AllFivePresent) =>
        \A i \in Envs :
            (\E k \in 1 .. 4 : ~LayerAligned(k, i, ret.xy_threshold)) => ~ret.out[i]

\* C8 happens: the bottom layer is at (0.10, 0, 0.015) with xy_threshold 0.05,
\* the order and stability gates hold, and the call returned false.
C8_Witness ==
    /\ DoneCalled
    /\ ~ret.test_mode
    /\ AllFivePresent
    /\ ret.xy_threshold = 50
    /\ \E i \in Envs :
          /\ root_pos_w["plate"][i] = <<0, 0, 0>>
          /\ root_pos_w["bread_slice_1"][i] = <<100, 0, 15>>
          /\ GateOrder(i)
          /\ GateStable(i)
          /\ ~ret.out[i]

\* C9: with test_mode off, task_done returns false for an instance whenever a
\* layer moves at 0.05 m/s or faster, even when alignment and order hold; the
\* velocity of the plate is not part of the check.
C9_UnstableFalse ==
    (DoneCalled /\ ~ret.test_mode /\ AllFivePresent) =>
        \A i \in Envs :
            /\ (\E k \in 1 .. 4 : ~LayerSlow(k, i)) => ~ret.out[i]
            /\ (/\ root_lin_vel_w["plate"][i] # ZeroVec
                /\ GateXY(i, ret.xy_threshold) /\ GateOrder(i) /\ GateStable(i))
               => ret.out[i]

\* C9 happens: the top layer moves at 0.2 m/s on an aligned, ordered stack and
\* the call returned false.
C9_Witness ==
    /\ DoneCalled
    /\ ~ret.test_mode
    /\ AllFivePresent
    /\ \E i \in Envs :
          /\ Speed2(root_lin_vel_w["bread_slice_2"][i]) = 200 * 200
          /\ GateXY(i, ret.xy_threshold)
          /\ GateOrder(i)
          /\ ~ret.out[i]

\* reachable as well: the plate moves fast and the call returned true
C9_PlateMovingStillDone ==
    /\ DoneCalled
    /\ ~ret.test_mode
    /\ AllFivePresent
    /\ \E i \in Envs :
          /\ Speed2(root_lin_vel_w["plate"][i]) >= 50 * 50
          /\ ret.out[i]

C11_TrueOnlyWithinHeightThreshold ==
    (DoneCalled /\ ~ret.test_mode /\ AllFivePresent) =>
        \A i \in Envs :
            ret.out[i] =>
                \A k \in 1 .. 4 :
                    /\ Height(k, i) - 15 * k <= ret.height_threshold
                    /\ 15 * k - Height(k, i) <= ret.height_threshold

\* C12: when one of the five named objects is missing from the scene, a call
\* to task_done fails with a lookup error; it never returns a result.
C12_MissingObjectRaises ==
    (DoneCalled /\ ~AllFivePresent) => ret.raised = "KeyError"

\* C12 as amended: when one of the five named objects is missing, a call to
\* task_done with test_mode off fails with a lookup error and returns no
\* result; with test_mode set it returns true for every instance.
C12_MissingObjectRaisesUnlessTestMode ==
    (DoneCalled /\ ~AllFivePresent) =>
        IF ret.test_mode
        THEN ret.raised = "none" /\ \A i \in Envs : ret.out[i]
        ELSE ret.raised = "KeyError"

\* C12 happens: the top bread is missing, test_mode is off, and the call
\* raised.
C12_Witness ==
    /\ DoneCalled
    /\ "bread_slice_2" \notin scene
    /\ "plate" \in scene
    /\ ~ret.test_mode
    /\ ret.raised = "KeyError"

-----------------------------------------------------------------------------
(* Both evaluators over a sequence of steps.                               *)
(* Every step the simulator writes a new snapshot and the managers call    *)
(* the evaluators on it; here the calls follow each other in any order and *)
(* any number, on snapshots that come back.  memo keeps one earlier call   *)
(* together with the snapshot it was made on.                              *)

\* What one instance can hold after a simulator step: the assembled stack at
\* rest under a closed gripper, the stack with the patty still falling under
\* an open gripper, and the ingredients off the plate under a closed gripper.
InstanceStates ==
    {[pos |-> Stacked, patty_vel |-> <<0, 0, 0>>, gripper |-> 590],
     [pos |-> Stacked, patty_vel |-> <<0, 0, 200>>, gripper |-> 700],
     [pos |-> Unassembled, patty_vel |-> <<0, 0, 0>>, gripper |-> 590]}

\* The snapshot in which instance i holds c(i).
SnapshotIs(c) ==
    /\ root_pos_w = [n \in RigidNames |-> [i \in Envs |-> c[i].pos[n]]]
    /\ root_lin_vel_w = [n \in RigidNames |->
                            [i \in Envs |-> IF n = "patty" THEN c[i].patty_vel ELSE ZeroVec]]
    /\ joint_pos = [i \in Envs |-> c[i].gripper]

InitSeq ==
    /\ scene = {robot_cfg, ee_frame_cfg} \cup RigidNames
    /\ \E c \in InstanceStates : SnapshotIs([i \in Envs |-> c])
    /\ target_pos_w = [i \in Envs |-> EeHome]
    /\ ret = NoCall
    /\ steps = 0
    /\ memo = NoCall
    /\ ViewerIdle
    /\ DriverIdle

\* The simulator steps one instance (env.step, or env.reset of that instance).
StepInstance ==
    /\ ret = NoCall
    /\ \E i \in Envs, c \in InstanceStates :
          /\ root_pos_w' = [n \in RigidNames |-> [root_pos_w[n] EXCEPT ![i] = c.pos[n]]]
          /\ root_lin_vel_w' = [root_lin_vel_w EXCEPT !["patty"][i] = c.patty_vel]
          /\ joint_pos' = [joint_pos EXCEPT ![i] = c.gripper]
    /\ UNCHANGED <<scene, target_pos_w, ret, steps>>
    /\ UNCHANGED <<memo, viewVars, genVars>>

\* The manager has consumed the returned tensor; the next step begins.
EndStep ==
    /\ ret # NoCall
    /\ ret' = NoCall
    /\ UNCHANGED <<scene, root_pos_w, root_lin_vel_w, target_pos_w, joint_pos, steps>>
    /\ UNCHANGED <<memo, viewVars, genVars>>

\* As EndStep, and the call is kept for comparison with a later one.
Remember ==
    /\ ret # NoCall
    /\ memo' = [fn |-> ret.fn, call |-> ret,
                root_pos_w |-> root_pos_w, root_lin_vel_w |-> root_lin_vel_w,
                target_pos_w |-> target_pos_w, joint_pos |-> joint_pos]
    /\ ret' = NoCall
    /\ UNCHANGED <<scene, root_pos_w, root_lin_vel_w, target_pos_w, joint_pos, steps>>
    /\ UNCHANGED <<viewVars, genVars>>

NextSeq ==
    \/ StepInstance
    \/ CallIngredientGrasped
    \/ CallTaskDone
    \/ EndStep
    \/ Remember

SpecSeq == InitSeq /\ [][NextSeq]_vars

\* The parameters of a call.
Params(c) ==
    IF c.fn = "ingredient_grasped"
    THEN <<c.fn, c.diff_threshold, c.grasp_threshold>>
    ELSE <<c.fn, c.height_threshold, c.xy_threshold, c.test_mode>>

\* The snapshot is the one memo was made on.
SnapshotAsRemembered ==
    /\ memo.root_pos_w = root_pos_w
    /\ memo.root_lin_vel_w = root_lin_vel_w
    /\ memo.target_pos_w = target_pos_w
    /\ memo.joint_pos = joint_pos

InstanceInputs(i) ==
    <<[n \in RigidNames |-> root_pos_w[n][i]],
      [n \in RigidNames |-> root_lin_vel_w[n][i]],
      target_pos_w[i], joint_pos[i]>>

\* The same, of the snapshot memo was made on.
RememberedInputs(i) ==
    <<[n \in RigidNames |-> memo.root_pos_w[n][i]],
      [n \in RigidNames |-> memo.root_lin_vel_w[n][i]],
      memo.target_pos_w[i], memo.joint_pos[i]>>

\* C14: for both evaluators the result for an instance is a function of that
\* instance's own poses, velocities and gripper: within one call two instances
\* with equal inputs get equal results, and between two calls with the same
\* parameters an instance whose inputs are as they were (in that instance or
\* another) gets the result it got, whatever the other instances hold.
C14_InstancesIndependent ==
    ret # NoCall =>
        /\ \A i, j \in Envs :
               InstanceInputs(i) = InstanceInputs(j) => ret.out[i] = ret.out[j]
        /\ (memo.fn = ret.fn /\ Params(memo.call) = Params(ret)) =>
               \A i, j \in Envs :
                   RememberedInputs(i) = InstanceInputs(j) => memo.call.out[i] = ret.out[j]

\* C14 happens: between two calls with the same parameters instance j changed
\* and got another result, while instance i kept its inputs and its result
\* "true", for the grasp detector.
C14_Witness ==
    /\ ret # NoCall
    /\ ret.fn = "ingredient_grasped"
    /\ memo.fn = ret.fn
    /\ Params(memo.call) = Params(ret)
    /\ \E i, j \in Envs :
          /\ i # j
          /\ RememberedInputs(i) = InstanceInputs(i)
          /\ RememberedInputs(j) # InstanceInputs(j)
          /\ ret.out[i] /\ memo.call.out[i]
          /\ memo.call.out[j] # ret.out[j]

\* The same for task_done.
C14_WitnessDone ==
    /\ ret # NoCall
    /\ ret.fn = "task_done"
    /\ ~ret.test_mode
    /\ memo.fn = ret.fn
    /\ Params(memo.call) = Params(ret)
    /\ \E i, j \in Envs :
          /\ i # j
          /\ RememberedInputs(i) = InstanceInputs(i)
          /\ RememberedInputs(j) # InstanceInputs(j)
          /\ ret.out[i] /\ memo.call.out[i]
          /\ memo.call.out[j] # ret.out[j]

\* C18: the thresholds are not validated.  ingredient_grasped with a zero or
\* negative diff_threshold, and task_done (test_mode off, all five objects in
\* the scene) with a zero or negative xy_threshold, raise nothing and return
\* false for every instance.
C18_NonPositiveThresholdAllFalse ==
    /\ (GraspCalled /\ ret.diff_threshold <= 0) =>
           (ret.raised = "none" /\ \A i \in Envs : ~ret.out[i])
    /\ (DoneCalled /\ ~ret.test_mode /\ ret.xy_threshold <= 0 /\ AllFivePresent) =>
           (ret.raised = "none" /\ \A i \in Envs : ~ret.out[i])

\* C18 happens: on one snapshot, with the stack assembled at rest under the
\* closed gripper in some instance, ingredient_grasped was called with a
\* negative diff_threshold and then task_done with xy_threshold zero.
C18_Witness ==
    /\ DoneCalled /\ ~ret.test_mode /\ ret.xy_threshold = 0
    /\ ret.raised = "none"
    /\ memo.fn = "ingredient_grasped"
    /\ memo.call.diff_threshold < 0
    /\ memo.call.raised = "none"
    /\ SnapshotAsRemembered
    /\ \E i \in Envs :
          /\ root_pos_w["bread_slice_2"][i] = Stacked["bread_slice_2"]
          /\ root_lin_vel_w["patty"][i] = ZeroVec
          /\ joint_pos[i] < memo.call.grasp_threshold

-----------------------------------------------------------------------------
(* The archive viewer: scripts/tools/view_camera_data.py                   *)
(*                                                                         *)
(* A frame is one RGB pixel [dtype, px]: px is <<r, g, b>>.  A uint8 frame *)
(* holds 0..255.  A float frame holds halves: 0, 1, 2 stand for 0.0, 0.5   *)
(* and 1.0.  The text cv2.putText draws over the image is left out.        *)

MaxKeyPresses == 3

\* seq[k] of Python and numpy: a negative k counts from the end, anything
\* outside -len .. len-1 raises IndexError.
py_index(seq, k) ==
    IF 0 <= k /\ k < Len(seq) THEN [ok |-> TRUE, val |-> seq[k + 1]]
    ELSE IF k < 0 /\ -Len(seq) <= k THEN [ok |-> TRUE, val |-> seq[Len(seq) + k + 1]]
    ELSE [ok |-> FALSE]

\* view_camera_data.py:63   wrist.max() <= 1.0
max_le_one(frame) ==
    IF frame.dtype = "float"
    THEN \A c \in 1 .. 3 : frame.px[c] <= 2
    ELSE \A c \in 1 .. 3 : frame.px[c] <= 1

\* view_camera_data.py:64   (wrist * 255).astype(np.uint8)
\* A float product is truncated; a uint8 array times 255 stays uint8 and wraps.
times_255_astype_uint8(frame) ==
    IF frame.dtype = "float"
    THEN [dtype |-> "uint8", px |-> [c \in 1 .. 3 |-> ((255 * frame.px[c]) \div 2) % 256]]
    ELSE [dtype |-> "uint8", px |-> [c \in 1 .. 3 |-> (frame.px[c] * 255) % 256]]

\* Variant of normalize: the encoding is read from the dtype, not from the values.
normalize_by_dtype(frame) ==
    IF frame.dtype = "float" THEN times_255_astype_uint8(frame) ELSE frame

\* view_camera_data.py:63-64 and 113-114
normalize(frame) ==
    IF max_le_one(frame) THEN times_255_astype_uint8(frame) ELSE frame

\* cv2.cvtColor(frame, cv2.COLOR_RGB2BGR)
cvtColor(frame) ==
    [dtype |-> frame.dtype, px |-> <<frame.px[3], frame.px[2], frame.px[1]>>]

\* view_camera_data.py:79   0 if paused else int(1000/fps)
wait_delay(is_paused, fps) == IF is_paused THEN 0 ELSE 1000 \div fps

\* Variant of handle_key: SPACE steps without pausing.
handle_key_space_runs(k, idx, is_paused) ==
    IF k = 113 THEN [quit |-> TRUE, paused |-> is_paused, frame_idx |-> idx]
    ELSE IF k = 112 THEN [quit |-> FALSE, paused |-> ~is_paused, frame_idx |-> idx]
    ELSE IF k = 32 THEN [quit |-> FALSE, paused |-> is_paused, frame_idx |-> idx + 1]
    ELSE IF ~is_paused THEN [quit |-> FALSE, paused |-> is_paused, frame_idx |-> idx + 1]
    ELSE [quit |-> FALSE, paused |-> is_paused, frame_idx |-> idx]

\* view_camera_data.py:81-89, on the key already masked with 0xFF:
\* ord('q') = 113, ord('p') = 112, ord(' ') = 32.
handle_key(k, idx, is_paused) ==
    IF k = 113 THEN [quit |-> TRUE, paused |-> is_paused, frame_idx |-> idx]
    ELSE IF k = 112 THEN [quit |-> FALSE, paused |-> ~is_paused, frame_idx |-> idx]
    ELSE IF k = 32 THEN [quit |-> FALSE, paused |-> TRUE, frame_idx |-> idx + 1]
    ELSE IF ~is_paused THEN [quit |-> FALSE, paused |-> is_paused, frame_idx |-> idx + 1]
    ELSE [quit |-> FALSE, paused |-> is_paused, frame_idx |-> idx]

\* Inputs of the model.
FloatDark == [dtype |-> "float", px |-> <<0, 0, 0>>]
FloatRamp == [dtype |-> "float", px |-> <<0, 1, 2>>]
IntDark == [dtype |-> "uint8", px |-> <<0, 0, 0>>]
IntDim == [dtype |-> "uint8", px |-> <<0, 1, 1>>]
IntBright == [dtype |-> "uint8", px |-> <<10, 128, 255>>]

\* The "obs" groups of the episodes: both cameras, one camera, none, the two
\* cameras with different numbers of frames, and a camera with no frame.
ObsBoth == [wrist |-> <<FloatRamp, FloatDark>>, front |-> <<IntBright, IntDim>>]
ObsWrist == [wrist |-> <<IntDark, IntBright, FloatRamp>>]
ObsFront == [front |-> <<IntDim>>]
ObsNone == [other |-> <<>>]
ObsLongWrist == [wrist |-> <<IntBright, IntBright>>, front |-> <<IntBright>>]
ObsShortWrist == [wrist |-> <<FloatRamp>>, front |-> <<FloatRamp, FloatDark>>]
ObsEmpty == [wrist |-> <<>>]

\* Archives: f["data"], as the sequence of its episodes in sorted-name order.
Archives ==
    {<<>>,
     <<[name |-> "demo_0", obs |-> ObsBoth], [name |-> "demo_1", obs |-> ObsNone]>>,
     <<[name |-> "demo_0", obs |-> ObsWrist], [name |-> "demo_1", obs |-> ObsLongWrist],
       [name |-> "demo_2", obs |-> ObsEmpty]>>,
     <<[name |-> "demo_0", obs |-> ObsFront], [name |-> "demo_1", obs |-> ObsShortWrist]>>}

EpisodeIndexes == {-3, -1, 0, 1, 2}
FpsValues == {30, 2000}
Modes == {"display", "export", "list"}

\* Raw results of cv2.waitKey for a key press: q, p, SPACE, a, and q as
\* reported with a modifier bit set above the low byte.
KeyCodes == {113, 112, 32, 97, 1048689}

\* The evaluators are not running while the viewer runs.
SimIdle ==
    /\ scene = {} /\ root_pos_w = <<>> /\ root_lin_vel_w = <<>> /\ target_pos_w = <<>>
    /\ joint_pos = <<>> /\ ret = NoCall /\ steps = 0 /\ memo = NoCall

\* The command line is parsed; the file at --dataset_file exists or not.
InitViewer ==
    /\ \E m \in Modes, e \in EpisodeIndexes, f \in FpsValues :
          args = [mode |-> m, episode |-> e, fps |-> f]
    /\ \/ dataset = [exists |-> FALSE, episodes |-> <<>>]
       \/ \E a \in Archives : dataset = [exists |-> TRUE, episodes |-> a]
    /\ pc = "main"
    /\ episode_name = "" /\ obs_group = <<>>
    /\ num_frames = 0 /\ frame_idx = 0 /\ paused = FALSE
    /\ key = 0 /\ presses = 0
    /\ shown = <<>> /\ window = <<>> /\ printed = <<>> /\ created = {} /\ raised = "none"
    /\ SimIdle
    /\ DriverIdle

has_wrist == "wrist" \in DOMAIN obs_group
has_front == "front" \in DOMAIN obs_group

\* view_camera_data.py:138-157
Main ==
    /\ pc = "main"
    /\ IF ~dataset.exists
       THEN /\ printed' = Append(printed, <<"Error: File not found">>)
            /\ pc' = "done"
       ELSE /\ pc' = args.mode
            /\ UNCHANGED printed
    /\ UNCHANGED <<args, dataset, episode_name, obs_group, num_frames, frame_idx, paused, key,
                   presses, shown, window, created, raised>>
    /\ UNCHANGED <<simVars, memo, genVars>>

\* view_camera_data.py:125-135
list_episodes ==
    /\ pc = "list"
    /\ printed' = printed \o <<<<"Total episodes", Len(dataset.episodes)>>>>
                     \o [k \in 1 .. Len(dataset.episodes) |->
                            <<"episode", k - 1, dataset.episodes[k].name,
                              "wrist" \in DOMAIN dataset.episodes[k].obs,
                              "front" \in DOMAIN dataset.episodes[k].obs>>]
    /\ pc' = "done"
    /\ UNCHANGED <<args, dataset, episode_name, obs_group, num_frames, frame_idx, paused, key,
                   presses, shown, window, created, raised>>
    /\ UNCHANGED <<simVars, memo, genVars>>

\* view_camera_data.py:26-58, up to the first test of the loop condition.
OpenDisplay ==
    /\ pc = "display"
    /\ LET episodes == dataset.episodes
           opened == printed \o <<<<"Opening dataset">>, <<"Found episodes", Len(episodes)>>>>
           chosen == py_index(episodes, args.episode)
       IN  IF args.episode >= Len(episodes)
           THEN /\ printed' = Append(opened, <<"Error: Episode not found", args.episode>>)
                /\ pc' = "done"
                /\ UNCHANGED <<episode_name, obs_group, num_frames, raised>>
           ELSE IF ~chosen.ok
           THEN /\ raised' = "IndexError"
                /\ printed' = opened
                /\ pc' = "done"
                /\ UNCHANGED <<episode_name, obs_group, num_frames>>
           ELSE LET obs == chosen.val.obs
                    loading == Append(opened, <<"Loading episode", chosen.val.name>>)
                    n == IF "wrist" \in DOMAIN obs THEN Len(obs.wrist) ELSE Len(obs.front)
                IN  IF "wrist" \notin DOMAIN obs /\ "front" \notin DOMAIN obs
                    THEN /\ printed' = Append(loading, <<"Error: No camera data found">>)
                         /\ pc' = "done"
                         /\ episode_name' = chosen.val.name
                         /\ obs_group' = obs
                         /\ UNCHANGED <<num_frames, raised>>
                    ELSE /\ printed' = loading \o <<<<"Total frames", n>>, <<"Press keys">>>>
                         /\ episode_name' = chosen.val.name
                         /\ obs_group' = obs
                         /\ num_frames' = n
                         /\ pc' = IF 0 < n THEN "show" ELSE "done"
                         /\ UNCHANGED raised
    /\ UNCHANGED <<args, dataset, frame_idx, paused, key, presses, shown, window, created>>
    /\ UNCHANGED <<simVars, memo, genVars>>

\* view_camera_data.py:59-77: the frames of the index are read, normalized and shown.
ShowFrame ==
    /\ pc = "show"
    /\ LET w == IF has_wrist THEN py_index(obs_group.wrist, frame_idx) ELSE [ok |-> TRUE]
           f == IF has_front THEN py_index(obs_group.front, frame_idx) ELSE [ok |-> TRUE]
       IN  IF ~w.ok \/ ~f.ok
           THEN /\ raised' = "IndexError"
                /\ pc' = "done"
                /\ UNCHANGED <<shown, window>>
           ELSE /\ window' = (IF has_wrist THEN <<cvtColor(normalize(w.val))>> ELSE <<>>)
                                \o (IF has_front THEN <<cvtColor(normalize(f.val))>> ELSE <<>>)
                /\ shown' = Append(shown, frame_idx)
                /\ pc' = "wait"
                /\ UNCHANGED raised
    /\ UNCHANGED <<args, dataset, episode_name, obs_group, num_frames, frame_idx, paused, key,
                   presses, printed, created>>
    /\ UNCHANGED <<simVars, memo, genVars>>

\* view_camera_data.py:79-91: cv2.waitKey returns a key pressed, or -1 when the
\* delay is positive and runs out; the result is masked and handled, and the
\* loop condition is tested again.
WaitKey ==
    /\ pc = "wait"
    /\ \E code \in KeyCodes \cup {-1} :
          /\ IF code = -1
             THEN wait_delay(paused, args.fps) > 0 /\ UNCHANGED presses
             ELSE presses < MaxKeyPresses /\ presses' = presses + 1
          /\ LET h == handle_key(code % 256, frame_idx, paused)
             IN  /\ key' = code % 256
                 /\ paused' = h.paused
                 /\ frame_idx' = h.frame_idx
                 /\ pc' = IF ~h.quit /\ h.frame_idx < num_frames THEN "show" ELSE "done"
                 /\ window' = IF ~h.quit /\ h.frame_idx < num_frames THEN window ELSE <<>>
    /\ UNCHANGED <<args, dataset, episode_name, obs_group, num_frames, shown, printed, created,
                   raised>>
    /\ UNCHANGED <<simVars, memo, genVars>>

\* view_camera_data.py:96-103: the episode is chosen and its output directory made.
OpenExport ==
    /\ pc = "export"
    /\ LET chosen == py_index(dataset.episodes, args.episode)
       IN  IF ~chosen.ok
           THEN /\ raised' = "IndexError"
                /\ pc' = "done"
                /\ UNCHANGED <<episode_name, obs_group, created>>
           ELSE /\ episode_name' = chosen.val.name
                /\ created' = created \cup {<<"dir", chosen.val.name>>}
                /\ obs_group' = chosen.val.obs
                /\ pc' = "export_wrist"
                /\ UNCHANGED raised
    /\ UNCHANGED <<args, dataset, num_frames, frame_idx, paused, key, presses,
                   shown, window, printed>>
    /\ UNCHANGED <<simVars, memo, genVars>>

\* view_camera_data.py:105-122, one iteration of the loop over ["wrist", "front"]:
\* the camera's directory, one image per frame, and the video ffmpeg makes of
\* the images (none when there is no image).
ExportCamera ==
    /\ pc \in {"export_wrist", "export_front"}
    /\ LET cam_name == IF pc = "export_wrist" THEN "wrist" ELSE "front"
           ep == episode_name
       IN  IF cam_name \in DOMAIN obs_group
           THEN LET images == obs_group[cam_name]
                IN  /\ created' = created
                           \cup {<<"dir", ep, cam_name>>}
                           \cup {<<"png", ep, cam_name, t - 1, cvtColor(normalize(images[t]))>> :
                                    t \in 1 .. Len(images)}
                           \cup (IF Len(images) > 0 THEN {<<"mp4", ep, cam_name>>} ELSE {})
                    /\ printed' = printed \o <<<<"Exporting frames", Len(images), cam_name>>,
                                               <<"Created", cam_name>>>>
           ELSE UNCHANGED <<created, printed>>
    /\ pc' = IF pc = "export_wrist" THEN "export_front" ELSE "done"
    /\ UNCHANGED <<args, dataset, episode_name, obs_group, num_frames, frame_idx, paused, key,
                   presses, shown, window, raised>>
    /\ UNCHANGED <<simVars, memo, genVars>>

NextViewer ==
    \/ Main
    \/ list_episodes
    \/ OpenDisplay
    \/ ShowFrame
    \/ WaitKey
    \/ OpenExport
    \/ ExportCamera

SpecViewer == InitViewer /\ [][NextViewer]_vars

-----------------------------------------------------------------------------
(* Properties of the viewer *)

DisplayOrExport == pc # "idle" /\ args.mode \in {"display", "export"}

\* --episode names an episode of the archive.
NamesEpisode == 0 <= args.episode /\ args.episode < Len(dataset.episodes)

\* The episode named has neither a "wrist" nor a "front" stream.
EpisodeHasNoStream ==
    /\ NamesEpisode
    /\ "wrist" \notin DOMAIN dataset.episodes[args.episode + 1].obs
    /\ "front" \notin DOMAIN dataset.episodes[args.episode + 1].obs

ErrorPrinted ==
    \E k \in 1 .. Len(printed) :
        printed[k][1] \in {"Error: File not found", "Error: Episode not found",
                           "Error: No camera data found"}

\* C15: in display and in export mode, when the file does not exist, or
\* --episode does not name an episode of the archive (too large or negative),
\* or the episode has neither stream, nothing is shown and nothing is
\* created, and the viewer ends having printed an error message.
C15_BadInputReportedNoOutput ==
    (DisplayOrExport /\ (~dataset.exists \/ ~NamesEpisode \/ EpisodeHasNoStream)) =>
        /\ shown = <<>>
        /\ created = {}
        /\ pc = "done" => (ErrorPrinted /\ raised = "none")

\* What the code does instead, in three reachable states: export of an episode
\* without streams makes its directory and prints no error; export with an
\* index past the end dies of IndexError; a negative index displays an
\* episode counted from the end.
C15_ExportOfNoStreamMakesDirectory ==
    /\ pc = "done" /\ args.mode = "export" /\ EpisodeHasNoStream
    /\ created # {} /\ ~ErrorPrinted
C15_ExportPastEndRaises ==
    /\ pc = "done" /\ args.mode = "export" /\ args.episode >= Len(dataset.episodes)
    /\ raised = "IndexError" /\ ~ErrorPrinted
C15_NegativeIndexDisplays ==
    /\ args.mode = "display" /\ args.episode < 0 /\ shown # <<>>

\* The frame as the claim wants it handed on: a float frame in [0,1] scaled
\* to 0..255, an integer frame as stored.
AsClaimed(frame) ==
    IF frame.dtype = "float"
    THEN [dtype |-> "uint8", px |-> <<(255 * frame.px[1]) \div 2, (255 * frame.px[2]) \div 2,
                                      (255 * frame.px[3]) \div 2>>]
    ELSE frame

\* The frames of the current index, as the claim wants them in the window.
WindowAsClaimed ==
    (IF has_wrist THEN <<cvtColor(AsClaimed(obs_group.wrist[frame_idx + 1]))>> ELSE <<>>)
        \o (IF has_front THEN <<cvtColor(AsClaimed(obs_group.front[frame_idx + 1]))>> ELSE <<>>)

\* C16: every frame shown and every image written is the stored frame with a
\* float frame in [0,1] scaled to 0..255 and an integer frame in [0,255]
\* unchanged (both in BGR channel order), whatever the frame holds.
C16_BothEncodingsNormalized ==
    /\ pc = "wait" => window = WindowAsClaimed
    /\ \A file \in created :
           file[1] = "png" =>
               file[5] = cvtColor(AsClaimed(obs_group[file[3]][file[4] + 1]))

\* What the code does with the integer frame (0, 1, 1): it is shown as
\* (0, 255, 255).  The all-dark integer frame is shown as stored.
C16_DimIntegerFrameBlownUp ==
    /\ pc = "wait"
    /\ has_front /\ ~has_wrist
    /\ obs_group.front[frame_idx + 1] = IntDim
    /\ window = <<[dtype |-> "uint8", px |-> <<255, 255, 0>>]>>
C16_DarkIntegerFrameKept ==
    /\ pc = "wait"
    /\ has_wrist /\ ~has_front
    /\ obs_group.wrist[frame_idx + 1] = IntDark
    /\ window = <<IntDark>>

-----------------------------------------------------------------------------
(* The data-generation driver: scripts/mimic/generate_dataset.py, main     *)
(*                                                                         *)
(* A text is the sequence of its words, an environment name the sequence   *)
(* of its parts between hyphens, --task the sequence of its parts between  *)
(* colons (<<>> when not given).  action_noise is in 1/1000.  A text that  *)
(* is None is <<>>, a name that is None is "None".                         *)

\* tasks/assemble_sandwich/__init__.py:5, 15, 26
AssembleSandwich_v0 == <<"LeIsaac", "SO101", "AssembleSandwich", "v0">>
AssembleSandwich_BiArm_v0 == <<"LeIsaac", "SO101", "AssembleSandwich", "BiArm", "v0">>
AssembleSandwich_Mimic_v0 == <<"LeIsaac", "SO101", "AssembleSandwich", "Mimic", "v0">>
\* a mimic environment of another task, as a source dataset can name one
OtherTask_Mimic_v0 == <<"LeIsaac", "SO101", "PickOrange", "Mimic", "v0">>

EnvNames ==
    {AssembleSandwich_v0, AssembleSandwich_BiArm_v0, AssembleSandwich_Mimic_v0,
     OtherTask_Mimic_v0}

\* generate_dataset.py:32-38   choices of --ingredient_type; "None" when not given
IngredientTypes == {"None", "bread_slice_1", "bread_slice_2", "cheese_slice", "patty"}

\* assemble_sandwich_mimic_env_cfg.py:74-87
grasp_subtask ==
    [object_ref |-> "bread_slice_1",
     subtask_term_signal |-> "grasp_ingredient",
     subtask_term_offset_range |-> <<10, 20>>,
     selection_strategy |-> "nearest_neighbor_object",
     selection_strategy_kwargs |-> [nn_k |-> 5],
     action_noise |-> 2,
     num_interpolation_steps |-> 8,
     num_fixed_steps |-> 0,
     apply_noise_during_interpolation |-> FALSE,
     description |-> <<"Grasp", "bread", "slice", "from", "cartridge">>,
     next_subtask_description |-> <<"Place", "bread", "slice", "on", "plate">>]

\* assemble_sandwich_mimic_env_cfg.py:91-103
place_subtask ==
    [object_ref |-> "plate",
     subtask_term_signal |-> "None",
     subtask_term_offset_range |-> <<0, 0>>,
     selection_strategy |-> "nearest_neighbor_object",
     selection_strategy_kwargs |-> [nn_k |-> 5],
     action_noise |-> 2,
     num_interpolation_steps |-> 8,
     num_fixed_steps |-> 0,
     apply_noise_during_interpolation |-> FALSE,
     description |-> <<"Place", "bread", "slice", "on", "plate">>,
     next_subtask_description |-> <<>>]

\* The single subtask of the other task's mimic configuration.
other_subtask ==
    [place_subtask EXCEPT !.object_ref = "orange",
                          !.description = <<"Pick", "orange">>]

\* setup_env_config: the configuration registered for the name.  Only a mimic
\* configuration has subtask_configs.
env_cfg_of(name) ==
    IF name = AssembleSandwich_Mimic_v0
    THEN [subtask_configs |-> [so101_follower |-> <<grasp_subtask, place_subtask>>]]
    ELSE IF name = OtherTask_Mimic_v0
    THEN [subtask_configs |-> [so101_follower |-> <<other_subtask>>]]
    ELSE [scene |-> name]

\* tasks/assemble_sandwich/__init__.py:27: the entry point of a mimic
\* environment is derived from ManagerBasedRLMimicEnv.
mimic_entry_point(name) == name \in {AssembleSandwich_Mimic_v0, OtherTask_Mimic_v0}

\* Variant of ingredient_display_names: the second bread slice is told apart.
ingredient_display_names_numbered ==
    [bread_slice_1 |-> <<"bread", "slice">>,
     bread_slice_2 |-> <<"bread", "slice", "2">>,
     cheese_slice |-> <<"cheese", "slice">>,
     patty |-> <<"patty">>]

\* generate_dataset.py:115-120
ingredient_display_names ==
    [bread_slice_1 |-> <<"bread", "slice">>,
     bread_slice_2 |-> <<"bread", "slice">>,
     cheese_slice |-> <<"cheese", "slice">>,
     patty |-> <<"patty">>]

\* generate_dataset.py:122   ingredient_display_names.get(t, t)
display_name(t) ==
    IF t \in DOMAIN ingredient_display_names THEN ingredient_display_names[t] ELSE <<t>>

\* "AssembleSandwich" in env_name
in_name(part, name) == \E k \in 1 .. Len(name) : name[k] = part

\* Variant of substituted: the ingredient is also made the object of subtask 1.
substituted_both_refs(cfg, ingredient_type) ==
    LET ingredient_name == display_name(ingredient_type)
        follower == cfg.subtask_configs.so101_follower
        first == [follower[1] EXCEPT
                     !.object_ref = ingredient_type,
                     !.description = <<"Grasp">> \o ingredient_name \o <<"from", "cartridge">>,
                     !.next_subtask_description =
                         <<"Place">> \o ingredient_name \o <<"on", "plate">>]
        rest == [k \in 1 .. Len(follower) - 1 |->
                    IF k = 1
                    THEN [follower[2] EXCEPT
                             !.object_ref = ingredient_type,
                             !.description = <<"Place">> \o ingredient_name \o <<"on", "plate">>]
                    ELSE follower[k + 1]]
    IN  [cfg EXCEPT !.subtask_configs.so101_follower = <<first>> \o rest]

\* generate_dataset.py:125-140, the configuration after the substitution.
substituted(cfg, ingredient_type) ==
    LET ingredient_name == display_name(ingredient_type)
        follower == cfg.subtask_configs.so101_follower
        first == [follower[1] EXCEPT
                     !.object_ref = ingredient_type,
                     !.description = <<"Grasp">> \o ingredient_name \o <<"from", "cartridge">>,
                     !.next_subtask_description =
                         <<"Place">> \o ingredient_name \o <<"on", "plate">>]
        rest == [k \in 1 .. Len(follower) - 1 |->
                    IF k = 1
                    THEN [follower[2] EXCEPT
                             !.description = <<"Place">> \o ingredient_name \o <<"on", "plate">>]
                    ELSE follower[k + 1]]
    IN  [cfg EXCEPT !.subtask_configs.so101_follower = <<first>> \o rest]

\* --task: not given, a registered name, or a name behind a module prefix.
Tasks ==
    {<<>>} \cup {<<n>> : n \in EnvNames} \cup {<<<<"leisaac">>, n>> : n \in EnvNames}

\* The command line is parsed; the source dataset names the environment it
\* was recorded in.
InitGen ==
    /\ \E t \in Tasks, g \in IngredientTypes :
          args_cli = [task |-> t, ingredient_type |-> g]
    /\ input_file \in EnvNames
    /\ env_name = <<>>
    /\ env_cfg = <<>>
    /\ gen_pc = "main"
    /\ log = <<>>
    /\ SimIdle
    /\ ViewerIdle

\* generate_dataset.py:92-110
ConfigureEnv ==
    /\ gen_pc = "main"
    /\ LET task_name == IF args_cli.task # <<>>
                        THEN args_cli.task[Len(args_cli.task)]      \* split(":")[-1]
                        ELSE <<>>
           name == IF task_name # <<>> THEN task_name ELSE input_file
       IN  /\ env_name' = name
           /\ env_cfg' = env_cfg_of(name)
    /\ gen_pc' = "configured"
    /\ UNCHANGED <<args_cli, input_file, log>>
    /\ UNCHANGED <<simVars, memo, viewVars>>

\* generate_dataset.py:112-140
SetIngredient ==
    /\ gen_pc = "configured"
    /\ IF args_cli.ingredient_type # "None" /\ in_name("AssembleSandwich", env_name)
       THEN IF /\ "subtask_configs" \in DOMAIN env_cfg
               /\ DOMAIN env_cfg.subtask_configs # {}
            THEN /\ env_cfg' = substituted(env_cfg, args_cli.ingredient_type)
                 /\ log' = Append(log, <<"[INFO] Ingredient type set to",
                                         args_cli.ingredient_type>>)
            ELSE /\ log' = Append(log, <<"Could not find subtask_configs">>)
                 /\ UNCHANGED env_cfg
       ELSE UNCHANGED <<env_cfg, log>>
    /\ gen_pc' = "make"
    /\ UNCHANGED <<args_cli, input_file, env_name>>
    /\ UNCHANGED <<simVars, memo, viewVars>>

\* generate_dataset.py:143-146: only a mimic environment goes on to generate.
CreateEnv ==
    /\ gen_pc = "make"
    /\ IF mimic_entry_point(env_name)
       THEN gen_pc' = "generate" /\ UNCHANGED log
       ELSE gen_pc' = "failed" /\ log' = Append(log, <<"ValueError">>)
    /\ UNCHANGED <<args_cli, input_file, env_name, env_cfg>>
    /\ UNCHANGED <<simVars, memo, viewVars>>

NextGen ==
    \/ ConfigureEnv
    \/ SetIngredient
    \/ CreateEnv

SpecGen == InitGen /\ [][NextGen]_vars

\* The so101_follower subtask configs of the configuration.
Follower == env_cfg.subtask_configs.so101_follower

\* The name the claim gives for an ingredient type.
NameAsClaimed(t) ==
    CASE t = "bread_slice_1" -> <<"bread", "slice">>
      [] t = "bread_slice_2" -> <<"bread", "slice">>
      [] t = "cheese_slice" -> <<"cheese", "slice">>
      [] t = "patty" -> <<"patty">>

C17_WitnessPatty ==
    /\ gen_pc = "generate"
    /\ env_name = AssembleSandwich_Mimic_v0
    /\ args_cli.ingredient_type = "patty"
    /\ Follower[1].object_ref = "patty"
    /\ Follower[1].next_subtask_description = <<"Place", "patty", "on", "plate">>
    /\ Follower[2].description = <<"Place", "patty", "on", "plate">>

-----------------------------------------------------------------------------
(* Properties of the playback loop *)

\* C19: every step of the playback loop that reads a key (or a timeout, read
\* as 255) does what the key says: 'q' (113) ends playback; 'p' (112) toggles
\* paused and keeps the frame index; SPACE (32) sets paused and advances the
\* frame index by one, paused or not; anything else advances by one when not
\* paused and changes neither when paused.  So while paused only SPACE moves
\* the frame index, and no step of the viewer decreases it.
C19_KeysDriveFrameIndex ==
    [][/\ pc = "wait" =>
            /\ key' = 113 => (pc' = "done" /\ frame_idx' = frame_idx /\ paused' = paused)
            /\ key' = 112 => (paused' = ~paused /\ frame_idx' = frame_idx)
            /\ key' = 32 => (paused' /\ frame_idx' = frame_idx + 1)
            /\ key' \notin {113, 112, 32} =>
                   /\ paused' = paused
                   /\ frame_idx' = IF paused THEN frame_idx ELSE frame_idx + 1
            /\ (paused /\ frame_idx' # frame_idx) => key' = 32
       /\ frame_idx' >= frame_idx]_vars

\* C19 happens: frame 0 was shown twice, so the first key was 'p' and paused
\* the playback; the second key was SPACE and moved the paused playback on to
\* frame 1.
C19_Witness ==
    /\ pc = "show"
    /\ presses = 2
    /\ key = 32
    /\ paused
    /\ shown = <<0, 0>>
    /\ frame_idx = 1

\* display_camera_feeds has reached its loop.
Playing ==
    /\ pc # "idle"
    /\ args.mode = "display"
    /\ \E k \in 1 .. Len(printed) : printed[k][1] = "Total frames"

\* C20: a playback ends only on 'q' or with the frame index at num_frames;
\* while no key has been pressed the frames shown are 0, 1, 2, ... once each,
\* and all of 0 .. num_frames-1 when the playback has ended; an episode of no
\* frames shows nothing.
C20_PlaybackEndsOnQuitOrLastFrame ==
    Playing =>
        /\ pc = "done" => (key = 113 \/ frame_idx = num_frames)
        /\ presses = 0 => \A k \in 1 .. Len(shown) : shown[k] = k - 1
        /\ (pc = "done" /\ presses = 0) => Len(shown) = num_frames
        /\ num_frames = 0 => shown = <<>>

\* What the code does instead: with a front stream shorter than the wrist
\* stream the playback dies of IndexError before the last frame, no key pressed.
C20_EndsEarlyOnShortFront ==
    /\ Playing /\ pc = "done" /\ presses = 0
    /\ raised = "IndexError"
    /\ frame_idx < num_frames
    /\ Len(shown) < num_frames

\* And with --fps above 1000 the delay is 0, which cv2.waitKey takes as "wait
\* for a key": the playback is not paused and still never times out.
C20_NoTimeoutAboveThousandFps ==
    /\ Playing /\ pc = "wait" /\ ~paused /\ presses = 0
    /\ wait_delay(paused, args.fps) = 0

\* C21: during playback the frame index the loop displays is a valid index
\* into each camera stream the episode has: 0 <= frame_idx, frame_idx below
\* the length of "wrist" when present and below the length of "front" when
\* present, whatever the two lengths are.
C21_FrameIndexValidInEachStream ==
    (Playing /\ pc \in {"show", "wait"}) =>
        /\ 0 <= frame_idx
        /\ has_wrist => frame_idx < Len(obs_group.wrist)
        /\ has_front => frame_idx < Len(obs_group.front)

\* What the code does instead: the loop runs up to the length of the wrist
\* stream; with a shorter front stream it enters its body with an index the
\* front stream does not have, and the read of that frame raises IndexError.
C21_LoopEntersPastShortFront ==
    /\ Playing /\ pc = "show"
    /\ has_wrist /\ has_front
    /\ frame_idx < num_frames
    /\ frame_idx >= Len(obs_group.front)
C21_ReadPastShortFrontRaises ==
    /\ Playing /\ pc = "done"
    /\ has_wrist /\ has_front
    /\ frame_idx >= Len(obs_group.front)
    /\ raised = "IndexError"

\* With a front stream at least as long as the wrist stream, or one stream
\* only, the index is valid throughout.
C21_ValidUnlessFrontShorter ==
    (Playing /\ pc \in {"show", "wait"}
        /\ (has_wrist /\ has_front => Len(obs_group.front) >= Len(obs_group.wrist))) =>
        /\ 0 <= frame_idx
        /\ has_wrist => frame_idx < Len(obs_group.wrist)
        /\ has_front => frame_idx < Len(obs_group.front)

\* The fields of subtask k (counted from 0) the substitution may write.
Substitutable(k) ==
    IF k = 0 THEN {"object_ref", "description", "next_subtask_description"}
    ELSE IF k = 1 THEN {"description"}
    ELSE {}

\* C22: the substitution step of the driver writes nothing but object_ref,
\* description and next_subtask_description of so101_follower subtask 0 and
\* description of subtask 1; every other field of every subtask config is as
\* before, so subtask 0 keeps its termination signal "grasp_ingredient" and
\* subtask 1 its object_ref "plate" and its null termination signal.  When
\* --ingredient_type is not given or the environment name does not contain
\* "AssembleSandwich", the configuration is left as it was.
C22_SubstitutionFrame ==
    [][gen_pc = "configured" =>
          IF \/ args_cli.ingredient_type = "None"
             \/ ~in_name("AssembleSandwich", env_name)
             \/ "subtask_configs" \notin DOMAIN env_cfg
          THEN env_cfg' = env_cfg
          ELSE LET before == env_cfg.subtask_configs
                   after == env_cfg'.subtask_configs
               IN  /\ DOMAIN env_cfg' = DOMAIN env_cfg
                   /\ DOMAIN after = DOMAIN before
                   /\ \A r \in DOMAIN before :
                          /\ Len(after[r]) = Len(before[r])
                          /\ \A k \in 1 .. Len(before[r]) :
                                 /\ DOMAIN after[r][k] = DOMAIN before[r][k]
                                 /\ \A f \in DOMAIN before[r][k] :
                                        \/ r = "so101_follower" /\ f \in Substitutable(k - 1)
                                        \/ after[r][k][f] = before[r][k][f]
                   /\ after.so101_follower[1].subtask_term_signal = "grasp_ingredient"
                   /\ after.so101_follower[2].object_ref = "plate"
                   /\ after.so101_follower[2].subtask_term_signal = "None"]_vars

\* C22 happens: the patty was substituted, and the fields not named are the
\* configured ones.
C22_Witness ==
    /\ gen_pc = "make"
    /\ env_name = AssembleSandwich_Mimic_v0
    /\ args_cli.ingredient_type = "patty"
    /\ Follower[1].object_ref = "patty"
    /\ Follower[1].description # grasp_subtask.description
    /\ Follower[2].description # place_subtask.description
    /\ [Follower[1] EXCEPT !.object_ref = "bread_slice_1",
                           !.description = grasp_subtask.description,
                           !.next_subtask_description = grasp_subtask.next_subtask_description]
           = grasp_subtask
    /\ [Follower[2] EXCEPT !.description = place_subtask.description] = place_subtask

\* The cases without substitution happen too: no --ingredient_type on the mimic
\* environment, and an ingredient given for the environment of another task.
C22_WitnessNotGiven ==
    /\ gen_pc = "make"
    /\ env_name = AssembleSandwich_Mimic_v0
    /\ args_cli.ingredient_type = "None"
    /\ env_cfg = env_cfg_of(env_name)
C22_WitnessOtherTask ==
    /\ gen_pc = "make"
    /\ env_name = OtherTask_Mimic_v0
    /\ args_cli.ingredient_type = "patty"
    /\ env_cfg = env_cfg_of(env_name)


-----------------------------------------------------------------------------
(* Both evaluators compared across thresholds and across scenes *)

\* The arrangements an instance of the compared snapshot may hold.
Arrangements == {Stacked, Unassembled}

\* The scene holds the robot, its end-effector frame, the plate and some of the
\* candidate ingredients; every instance holds one of the arrangements.
InitMono ==
    /\ \E present \in SUBSET Candidates, a \in [Envs -> Arrangements] :
          /\ scene = {robot_cfg, ee_frame_cfg, "plate"} \cup present
          /\ root_pos_w = [n \in {"plate"} \cup present |-> [i \in Envs |-> a[i][n]]]
          /\ root_lin_vel_w = [n \in {"plate"} \cup present |-> [i \in Envs |-> ZeroVec]]
    /\ target_pos_w = [i \in Envs |-> EeHome]
    /\ joint_pos = [i \in Envs |-> 590]
    /\ ret = NoCall
    /\ steps = 0
    /\ memo = NoCall
    /\ ViewerIdle
    /\ DriverIdle

\* The first call of a comparison is kept; the snapshot stays as it is.
RememberFirst ==
    /\ memo = NoCall
    /\ Remember

\* The scene is built with one further candidate ingredient, everything else
\* of the remembered snapshot as it was.
AddCandidate ==
    /\ ret = NoCall
    /\ memo # NoCall
    /\ DOMAIN root_pos_w = DOMAIN memo.root_pos_w
    /\ \E n \in Candidates \ scene, p \in IngredientPositions :
          /\ scene' = scene \cup {n}
          /\ root_pos_w' = [m \in DOMAIN root_pos_w \cup {n} |->
                               IF m = n THEN [i \in Envs |-> p] ELSE root_pos_w[m]]
          /\ root_lin_vel_w' = [m \in DOMAIN root_lin_vel_w \cup {n} |->
                                   IF m = n THEN [i \in Envs |-> ZeroVec]
                                   ELSE root_lin_vel_w[m]]
    /\ UNCHANGED <<target_pos_w, joint_pos, ret, steps>>
    /\ UNCHANGED <<memo, viewVars, genVars>>

NextMono ==
    \/ CallIngredientGrasped
    \/ CallTaskDone
    \/ RememberFirst
    \/ AddCandidate

SpecMono == InitMono /\ [][NextMono]_vars

\* The present snapshot is the remembered one, possibly with further objects.
SnapshotExtendsRemembered ==
    /\ memo # NoCall
    /\ DOMAIN memo.root_pos_w \subseteq DOMAIN root_pos_w
    /\ \A n \in DOMAIN memo.root_pos_w :
          /\ root_pos_w[n] = memo.root_pos_w[n]
          /\ root_lin_vel_w[n] = memo.root_lin_vel_w[n]
    /\ target_pos_w = memo.target_pos_w
    /\ joint_pos = memo.joint_pos

\* Two grasp calls, the later one with thresholds and scene at least as large.
GraspRaised ==
    /\ SnapshotExtendsRemembered
    /\ GraspCalled
    /\ memo.fn = "ingredient_grasped"
    /\ memo.call.raised = "none"
    /\ ret.raised = "none"
    /\ memo.call.diff_threshold <= ret.diff_threshold
    /\ memo.call.grasp_threshold <= ret.grasp_threshold

\* Two stack calls on one snapshot, the later one with xy_threshold at least as
\* large and everything else equal.
DoneRaised ==
    /\ SnapshotExtendsRemembered
    /\ DOMAIN memo.root_pos_w = DOMAIN root_pos_w
    /\ DoneCalled
    /\ memo.fn = "task_done"
    /\ memo.call.raised = "none"
    /\ ret.raised = "none"
    /\ memo.call.height_threshold = ret.height_threshold
    /\ memo.call.test_mode = ret.test_mode
    /\ memo.call.xy_threshold <= ret.xy_threshold

\* C23: on one snapshot, a grasp call with diff_threshold and grasp_threshold at
\* least as large, in a scene with the same or further candidates, is true for
\* every instance for which the earlier call was true; a stack call with
\* xy_threshold at least as large is true for every instance for which the
\* earlier call was true.
C23_MonotoneInThresholdsAndScene ==
    /\ GraspRaised => \A i \in Envs : memo.call.out[i] => ret.out[i]
    /\ DoneRaised => \A i \in Envs : memo.call.out[i] => ret.out[i]

\* Reached: a grasp stays true with diff_threshold raised and a candidate added.
C23_Witness ==
    /\ GraspRaised
    /\ memo.call.diff_threshold < ret.diff_threshold
    /\ DOMAIN memo.root_pos_w # DOMAIN root_pos_w
    /\ \E i \in Envs : memo.call.out[i] /\ ret.out[i]

\* Reached: the added candidate alone turns a grasp from false to true.
C23_WitnessCandidateAdded ==
    /\ GraspRaised
    /\ memo.call.diff_threshold = ret.diff_threshold
    /\ memo.call.grasp_threshold = ret.grasp_threshold
    /\ DOMAIN memo.root_pos_w # DOMAIN root_pos_w
    /\ \E i \in Envs : ~memo.call.out[i] /\ ret.out[i]

\* Reached: a raised grasp_threshold alone turns a grasp from false to true.
C23_WitnessGraspThreshold ==
    /\ GraspRaised
    /\ memo.call.diff_threshold = ret.diff_threshold
    /\ memo.call.grasp_threshold < ret.grasp_threshold
    /\ DOMAIN memo.root_pos_w = DOMAIN root_pos_w
    /\ \E i \in Envs : ~memo.call.out[i] /\ ret.out[i]

\* Reached: a stack result stays true with xy_threshold raised.
C23_WitnessDone ==
    /\ DoneRaised
    /\ ~ret.test_mode
    /\ memo.call.xy_threshold < ret.xy_threshold
    /\ \E i \in Envs : memo.call.out[i] /\ ret.out[i]

=============================================================================
